---- MODULE Spec2Model ----
(***************************************************************************)
(* Model of src/src/App.jsx: the App component's fetch lifecycle (the      *)
(* useEffect at lines 26-67), the chartData aggregation (the useMemo at    *)
(* lines 73-123) and the conditions under which the JSX shows each block   *)
(* (lines 159-353).                                                        *)
(*                                                                         *)
(* A JavaScript string is modelled as the sequence of its UTF-16 code      *)
(* units (numbers), so that length, substring, concatenation and string    *)
(* comparison are computed rather than assumed.  A raw record is a         *)
(* function from field names to strings; an absent field is a name that    *)
(* is not in the record's DOMAIN.                                          *)
(***************************************************************************)
EXTENDS Integers, Sequences, FiniteSets

VARIABLES data, loading, error, progress, viewMode, chartData,
          pc, fetchCount, timerPending, timezone

vars == <<data, loading, error, progress, viewMode, chartData,
          pc, fetchCount, timerPending, timezone>>

(***************************************************************************)
(* Program constants.                                                      *)
(***************************************************************************)
\* .slice(0, 15): the number of entries kept in crimesByType / crimesByArea
TopN == 15
\* name.length > 40: the label length above which a type label is shortened
MaxNameLength == 40
\* name.substring(0, 37): the code units kept of a shortened label
KeptNameLength == 37

(***************************************************************************)
(* Bounds of the model.                                                    *)
(***************************************************************************)
\* the number of sample records placed around the base block of a response
MaxExtra == 2

(***************************************************************************)
(* Strings.                                                                *)
(***************************************************************************)
\* 'Unknown'
Unknown == <<85, 110, 107, 110, 111, 119, 110>>
\* '...'
Ellipsis == <<46, 46, 46>>

\* JavaScript truthiness of a string: every string but '' is truthy
Truthy(s) == s # <<>>

\* Array.prototype.slice(start, end) and String.prototype.substring(start, end)
\* for 0 <= start <= end: the elements at the 0-based positions start..end-1
Slice(seq, start, end) ==
    SubSeq(seq, start + 1, IF end < Len(seq) THEN end ELSE Len(seq))

\* String(n) for a natural number n: its decimal digits
RECURSIVE ToString(_)
ToString(n) ==
    IF n < 10 THEN <<48 + n>> ELSE ToString(n \div 10) \o <<48 + (n % 10)>>

\* s.padStart(2, '0')
PadStart2(s) == IF Len(s) >= 2 THEN s ELSE <<48>> \o s

\* a.localeCompare(b) for strings of digits and '-', which every collation
\* orders as their code units do: negative, 0 or positive
RECURSIVE LocaleCompare(_, _)
LocaleCompare(a, b) ==
    IF a = <<>> /\ b = <<>> THEN 0
    ELSE IF a = <<>> THEN -1
    ELSE IF b = <<>> THEN 1
    ELSE IF Head(a) < Head(b) THEN -1
    ELSE IF Head(a) > Head(b) THEN 1
    ELSE LocaleCompare(Tail(a), Tail(b))

(***************************************************************************)
(* new Date(string), getTime(), getFullYear(), getMonth().                 *)
(* Two forms are recognised, the ones the data source and the spec's       *)
(* scenarios use: the date-only form YYYY-MM-DD, which JavaScript reads as *)
(* midnight UTC, and the date-time form YYYY-MM-DDTHH:mm:ss.sss without an *)
(* offset, which it reads as local time.  Every other string of the        *)
(* model's inputs is one new Date() rejects (getTime() is NaN).  Days past *)
(* the end of a month (29..31) are not used by the inputs.                 *)
(***************************************************************************)
IsDigits(s, from, n) == \A i \in from..(from + n - 1) : s[i] \in 48..57

RECURSIVE ToNumber(_, _, _)
ToNumber(s, from, n) ==
    IF n = 0 THEN 0
    ELSE ToNumber(s, from, n - 1) * 10 + (s[from + n - 1] - 48)

IsDateForm(s) ==
    /\ Len(s) >= 10
    /\ IsDigits(s, 1, 4) /\ s[5] = 45
    /\ IsDigits(s, 6, 2) /\ s[8] = 45
    /\ IsDigits(s, 9, 2)
    /\ ToNumber(s, 6, 2) \in 1..12
    /\ ToNumber(s, 9, 2) \in 1..31

IsTimeForm(s) ==
    /\ Len(s) = 23
    /\ s[11] = 84
    /\ IsDigits(s, 12, 2) /\ s[14] = 58
    /\ IsDigits(s, 15, 2) /\ s[17] = 58
    /\ IsDigits(s, 18, 2) /\ s[20] = 46
    /\ IsDigits(s, 21, 3)
    /\ ToNumber(s, 12, 2) \in 0..23
    /\ ToNumber(s, 15, 2) \in 0..59
    /\ ToNumber(s, 18, 2) \in 0..59

\* !isNaN(new Date(s).getTime())
IsValidDate(s) ==
    IsDateForm(s) /\ (Len(s) = 10 \/ IsTimeForm(s))

\* The local calendar day of new Date(s), s a valid date string, in a time
\* zone tz that is "west" of UTC (local time behind UTC) or "east" (UTC or
\* ahead of it).  Midnight UTC falls on the previous local day west of UTC.
LocalDate(s, tz) ==
    LET y == ToNumber(s, 1, 4)
        m == ToNumber(s, 6, 2)
        d == ToNumber(s, 9, 2)
    IN  IF Len(s) = 10 /\ tz = "west" /\ d = 1
        THEN IF m = 1 THEN [year |-> y - 1, month |-> 12]
                      ELSE [year |-> y, month |-> m - 1]
        ELSE [year |-> y, month |-> m]

\* `${date.getFullYear()}-${String(date.getMonth() + 1).padStart(2, '0')}`
\* for date = new Date(s); on an Invalid Date both getters return NaN and the
\* template yields 'NaN-NaN'
monthKey(s, tz) ==
    IF IsValidDate(s)
    THEN LET date == LocalDate(s, tz)
         IN  ToString(date.year) \o <<45>> \o PadStart2(ToString(date.month))
    ELSE <<78, 97, 78, 45, 78, 97, 78>>

(***************************************************************************)
(* Map: a sequence of [name, value] entries in insertion order, which is   *)
(* the order Map.prototype.entries() iterates in.                          *)
(***************************************************************************)
\* map.get(key) || 0
MapGetOr0(map, key) ==
    IF \E i \in 1..Len(map) : map[i].name = key
    THEN (CHOOSE e \in {map[i] : i \in 1..Len(map)} : e.name = key).value
    ELSE 0

\* map.set(key, value): an existing key keeps its place, a new one goes last
MapSet(map, key, value) ==
    IF \E i \in 1..Len(map) : map[i].name = key
    THEN [i \in 1..Len(map) |->
            IF map[i].name = key THEN [name |-> key, value |-> value]
            ELSE map[i]]
    ELSE Append(map, [name |-> key, value |-> value])

\* map.set(key, (map.get(key) || 0) + 1)
\* (MapIncrementFromOne: the same with (map.get(key) || 1))
MapIncrementFromOne(map, key) ==
    MapSet(map, key,
           (IF MapGetOr0(map, key) = 0 THEN 1 ELSE MapGetOr0(map, key)) + 1)
MapIncrement(map, key) == MapSet(map, key, MapGetOr0(map, key) + 1)

(***************************************************************************)
(* The aggregation loop of chartData.                                      *)
(***************************************************************************)
\* record.crm_cd_desc || 'Unknown'
type(record) ==
    IF "crm_cd_desc" \in DOMAIN record /\ Truthy(record.crm_cd_desc)
    THEN record.crm_cd_desc
    ELSE Unknown

\* record.area_name || record.area || 'Unknown'
\* (areaFallbackFirst: the same with the two fields in the other order)
areaFallbackFirst(record) ==
    IF "area" \in DOMAIN record /\ Truthy(record.area)
    THEN record.area
    ELSE IF "area_name" \in DOMAIN record /\ Truthy(record.area_name)
    THEN record.area_name
    ELSE Unknown
area(record) ==
    IF "area_name" \in DOMAIN record /\ Truthy(record.area_name)
    THEN record.area_name
    ELSE IF "area" \in DOMAIN record /\ Truthy(record.area)
    THEN record.area
    ELSE Unknown

\* if (record.date_rptd) { const date = new Date(...); if (!isNaN(...)) {...} }
\* (countsTimeNoNaNCheck: the same without the isNaN test)
countsTimeNoNaNCheck(record) ==
    "date_rptd" \in DOMAIN record /\ Truthy(record.date_rptd)
countsTime(record) ==
    /\ "date_rptd" \in DOMAIN record
    /\ Truthy(record.date_rptd)
    /\ IsValidDate(record.date_rptd)

\* one iteration of: for (const record of data) { ... processed++ }
\* (LoopBodyCountsDated: the same with processed++ inside the date branch)
LoopBodyCountsDated(acc, record, tz) ==
    [typeCount |-> MapIncrement(acc.typeCount, type(record)),
     areaCount |-> MapIncrement(acc.areaCount, area(record)),
     timeCount |-> IF countsTime(record)
                   THEN MapIncrement(acc.timeCount, monthKey(record.date_rptd, tz))
                   ELSE acc.timeCount,
     processed |-> IF countsTime(record) THEN acc.processed + 1
                   ELSE acc.processed]
LoopBody(acc, record, tz) ==
    [typeCount |-> MapIncrement(acc.typeCount, type(record)),
     areaCount |-> MapIncrement(acc.areaCount, area(record)),
     timeCount |-> IF countsTime(record)
                   THEN MapIncrement(acc.timeCount, monthKey(record.date_rptd, tz))
                   ELSE acc.timeCount,
     processed |-> acc.processed + 1]

\* the state before the loop: three empty Maps and processed = 0
EmptyCounts ==
    [typeCount |-> <<>>, areaCount |-> <<>>, timeCount |-> <<>>,
     processed |-> 0]

\* the whole loop over the records, in input order
RECURSIVE Loop(_, _)
Loop(records, tz) ==
    IF records = <<>> THEN EmptyCounts
    ELSE LoopBody(Loop(SubSeq(records, 1, Len(records) - 1), tz),
                  records[Len(records)], tz)

(***************************************************************************)
(* Array.prototype.sort(compare): stable (ECMAScript 2019), so elements    *)
(* the comparator calls equal keep their order.  It is computed by         *)
(* inserting each element, in order, after the elements already placed     *)
(* that do not compare greater than it.                                    *)
(***************************************************************************)
\* the comparator (a, b) => b.value - a.value
CompareValueDesc(a, b) == b.value - a.value

\* the comparator (a, b) => a.name.localeCompare(b.name)
CompareName(a, b) == LocaleCompare(a.name, b.name)

\* (InsertByValueBeforeEqual: an insertion that puts an element before the
\* ones it ties with, as an unstable sort may)
InsertByValueBeforeEqual(sorted, e) ==
    LET k == Cardinality({i \in 1..Len(sorted) :
                            CompareValueDesc(sorted[i], e) < 0})
    IN  SubSeq(sorted, 1, k) \o <<e>> \o SubSeq(sorted, k + 1, Len(sorted))
InsertByValue(sorted, e) ==
    LET k == Cardinality({i \in 1..Len(sorted) :
                            CompareValueDesc(sorted[i], e) <= 0})
    IN  SubSeq(sorted, 1, k) \o <<e>> \o SubSeq(sorted, k + 1, Len(sorted))

InsertByName(sorted, e) ==
    LET k == Cardinality({i \in 1..Len(sorted) :
                            CompareName(sorted[i], e) <= 0})
    IN  SubSeq(sorted, 1, k) \o <<e>> \o SubSeq(sorted, k + 1, Len(sorted))

\* entries.sort((a, b) => b.value - a.value)
RECURSIVE SortByValueDesc(_)
SortByValueDesc(entries) ==
    IF entries = <<>> THEN <<>>
    ELSE InsertByValue(SortByValueDesc(SubSeq(entries, 1, Len(entries) - 1)),
                       entries[Len(entries)])

\* entries.sort((a, b) => a.name.localeCompare(b.name))
\* (SortByNameKeepsOrder: the same without the sort)
SortByNameKeepsOrder(entries) == entries
RECURSIVE SortByName(_)
SortByName(entries) ==
    IF entries = <<>> THEN <<>>
    ELSE InsertByName(SortByName(SubSeq(entries, 1, Len(entries) - 1)),
                      entries[Len(entries)])

(***************************************************************************)
(* The three views built from the Maps, and the memoised chartData.        *)
(***************************************************************************)
\* name.length > 40 ? name.substring(0, 37) + '...' : name
\* (shortNameFrom40: the same with name.length >= 40)
shortNameFrom40(name) ==
    IF Len(name) >= MaxNameLength
    THEN Slice(name, 0, KeptNameLength) \o Ellipsis
    ELSE name
shortName(name) ==
    IF Len(name) > MaxNameLength
    THEN Slice(name, 0, KeptNameLength) \o Ellipsis
    ELSE name

\* ([name, value]) => ({ name: ..., fullName: name, value })
typeEntry(e) ==
    [name |-> shortName(e.name), fullName |-> e.name, value |-> e.value]

\* ([name, value]) => ({ name, value })
\* (areaEntryShortened: the same mapping as the one of crimesByType)
areaEntryShortened(e) ==
    [name |-> shortName(e.name), fullName |-> e.name, value |-> e.value]
areaEntry(e) == [name |-> e.name, value |-> e.value]

\* Array.from(typeCount.entries()).map(...).sort(...).slice(0, 15)
\* (crimesByTypeKeepsOneMore: the same with .slice(0, 16))
crimesByTypeKeepsOneMore(counts) ==
    Slice(SortByValueDesc([i \in 1..Len(counts.typeCount) |->
                              typeEntry(counts.typeCount[i])]), 0, TopN + 1)
crimesByType(counts) ==
    Slice(SortByValueDesc([i \in 1..Len(counts.typeCount) |->
                              typeEntry(counts.typeCount[i])]), 0, TopN)

\* Array.from(areaCount.entries()).map(...).sort(...).slice(0, 15)
crimesByArea(counts) ==
    Slice(SortByValueDesc([i \in 1..Len(counts.areaCount) |->
                              areaEntry(counts.areaCount[i])]), 0, TopN)

\* Array.from(timeCount.entries()).map(...).sort(...)
crimesOverTime(counts) ==
    SortByName([i \in 1..Len(counts.timeCount) |->
                   [name |-> counts.timeCount[i].name,
                    value |-> counts.timeCount[i].value]])

\* the value of useMemo(() => {...}, [data]) for the records and the time
\* zone the browser runs in
ChartDataOf(records, tz) ==
    IF Len(records) = 0
    THEN [crimesByType |-> <<>>, crimesByArea |-> <<>>,
          crimesOverTime |-> <<>>, totalCount |-> 0]
    ELSE LET counts == Loop(records, tz)
         IN  [crimesByType |-> crimesByType(counts),
              crimesByArea |-> crimesByArea(counts),
              crimesOverTime |-> crimesOverTime(counts),
              totalCount |-> counts.processed]

(***************************************************************************)
(* The responses of the data source: the JSON arrays sampleResponse.json() *)
(* may resolve to.  A response is a block of TopN + 1 records with         *)
(* pairwise distinct crime types, areas and months, newest first as the    *)
(* request's $order asks (or no such block), with up to MaxExtra records   *)
(* of SampleRecords, in all, before and after it.                          *)
(***************************************************************************)
\* the three-unit string of a letter and a two-digit number, such as 'C07'
Code3(letter, i) == <<letter, 48 + (i \div 10), 48 + (i % 10)>>

\* a string of n code units that differ from their neighbours
LongText(n) == [i \in 1..n |-> 65 + (i % 26)]

\* the floating timestamp the data source serves: YYYY-MM-DDT00:00:00.000
Timestamp(y, m, d) ==
    ToString(y) \o <<45>> \o PadStart2(ToString(m)) \o <<45>>
        \o PadStart2(ToString(d))
        \o <<84, 48, 48, 58, 48, 48, 58, 48, 48, 46, 48, 48, 48>>

BaseLen == TopN + 1

\* the i-th record of the base block; the k-th month counts from 2020-01
BaseRecord(i) ==
    LET k == BaseLen - i
    IN  [crm_cd_desc |-> Code3(67, i),
         area_name   |-> Code3(65, i),
         area        |-> <<48 + (i \div 10), 48 + (i % 10)>>,
         date_rptd   |-> Timestamp(2020 + (k \div 12), (k % 12) + 1, 15)]

BaseBlock == [i \in 1..BaseLen |-> BaseRecord(i)]

SampleRecords ==
    { \* the last type and area of the base block, a date-only first of month
      [crm_cd_desc |-> Code3(67, BaseLen), area_name |-> Code3(65, BaseLen),
       area |-> <<57, 57>>,
       date_rptd |-> <<50, 48, 50, 49, 45, 48, 53, 45, 48, 49>>],
      \* a 45-unit type, no area_name, a 41-unit area, the date 'n/a'
      [crm_cd_desc |-> LongText(45), area |-> LongText(41),
       date_rptd |-> <<110, 47, 97>>],
      \* none of the four fields
      [dr_no |-> <<49>>],
      \* empty strings for the type, the area_name and the date; area '02'
      [crm_cd_desc |-> <<>>, area_name |-> <<>>, area |-> <<48, 50>>,
       date_rptd |-> <<>>],
      \* a 40-unit type and area_name, a timestamp whose month is 13
      [crm_cd_desc |-> LongText(40), area_name |-> LongText(40),
       date_rptd |-> Timestamp(2020, 13, 1)],
      \* 'THEFT', 'HOLLYWOOD', area '06', the date-only '2021-03-15'
      [crm_cd_desc |-> <<84, 72, 69, 70, 84>>,
       area_name |-> <<72, 79, 76, 76, 89, 87, 79, 79, 68>>,
       area |-> <<48, 54>>,
       date_rptd |-> <<50, 48, 50, 49, 45, 48, 51, 45, 49, 53>>] }

SeqsOfLen(S, n) == [1..n -> S]

SampleResponses ==
    UNION { { pre \o mid \o post :
                mid \in {<<>>, BaseBlock},
                pre \in SeqsOfLen(SampleRecords, n),
                post \in UNION {SeqsOfLen(SampleRecords, k) :
                                   k \in 0..(MaxExtra - n)} } :
            n \in 0..MaxExtra }

(***************************************************************************)
(* The component's state and the fetch lifecycle.                          *)
(***************************************************************************)
\* the value null of the error state
null == "<null>"

\* JavaScript truthiness of the error state: null and '' are falsy
ErrorSet == error # null /\ error # ""

\* the useState initial values, the first render's chartData, and the
\* effect not yet run
Init ==
    /\ timezone \in {"west", "east"}
    /\ data = <<>>
    /\ loading = TRUE
    /\ error = null
    /\ progress = <<>>
    /\ viewMode = "graphs"
    /\ chartData = ChartDataOf(<<>>, timezone)
    /\ pc = "mounted"
    /\ fetchCount = 0
    /\ timerPending = FALSE

\* the effect up to `await fetch(sampleUrl)`
StartFetch ==
    /\ pc = "mounted"
    /\ loading' = TRUE
    /\ error' = null
    /\ progress' = <<"Loading data sample...">>
    /\ fetchCount' = fetchCount + 1
    /\ pc' = "fetching"
    /\ UNCHANGED <<data, viewMode, chartData, timerPending, timezone>>

\* catch (err) { setError(err.message) } finally { setLoading(false);
\* setTimeout(() => setProgress(''), 2000) }
\* (FailKeepsLoading: the same without setLoading(false))
FailKeepsLoading(message) ==
    /\ error' = message
    /\ timerPending' = TRUE
    /\ pc' = "failed"
    /\ UNCHANGED <<loading, data, progress, viewMode, chartData, fetchCount,
                   timezone>>
Fail(message) ==
    /\ error' = message
    /\ loading' = FALSE
    /\ timerPending' = TRUE
    /\ pc' = "failed"
    /\ UNCHANGED <<data, progress, viewMode, chartData, fetchCount, timezone>>

\* fetch() rejects: a network error
FetchRejected ==
    /\ pc = "fetching"
    /\ Fail("Failed to fetch")

\* fetch() resolves with a response whose ok is false
ResponseNotOk ==
    /\ pc = "fetching"
    /\ \E message \in {"Failed to fetch data: 404 Not Found",
                        "Failed to fetch data: 500 Internal Server Error"} :
          Fail(message)

\* fetch() resolves with a response whose ok is true: on to `await json()`
ResponseOk ==
    /\ pc = "fetching"
    /\ pc' = "parsing"
    /\ UNCHANGED <<data, loading, error, progress, viewMode, chartData,
                   fetchCount, timerPending, timezone>>

\* sampleResponse.json() rejects: the body is not JSON
JsonRejected ==
    /\ pc = "parsing"
    /\ Fail("Unexpected token < in JSON at position 0")

\* sampleResponse.json() resolves: setData, the progress text with the
\* record count, the finally block, and the render that recomputes chartData
JsonResolved ==
    /\ pc = "parsing"
    /\ \E sampleData \in SampleResponses :
          /\ data' = sampleData
          /\ progress' = <<"Loaded ", Len(sampleData), " records for analysis">>
          /\ chartData' = ChartDataOf(sampleData, timezone)
    /\ loading' = FALSE
    /\ timerPending' = TRUE
    /\ pc' = "loaded"
    /\ UNCHANGED <<error, viewMode, fetchCount, timezone>>

\* the callback of setTimeout(() => setProgress(''), 2000)
ProgressTimeout ==
    /\ timerPending
    /\ progress' = <<>>
    /\ timerPending' = FALSE
    /\ UNCHANGED <<data, loading, error, viewMode, chartData, pc, fetchCount,
                   timezone>>

\* onClick={() => setViewMode('graphs')}
ShowGraphs ==
    /\ viewMode' = "graphs"
    /\ UNCHANGED <<data, loading, error, progress, chartData, pc, fetchCount,
                   timerPending, timezone>>

\* onClick={() => setViewMode('table')}
ShowTable ==
    /\ viewMode' = "table"
    /\ UNCHANGED <<data, loading, error, progress, chartData, pc, fetchCount,
                   timerPending, timezone>>

Next ==
    \/ StartFetch
    \/ FetchRejected
    \/ ResponseNotOk
    \/ ResponseOk
    \/ JsonRejected
    \/ JsonResolved
    \/ ProgressTimeout
    \/ ShowGraphs
    \/ ShowTable

Spec == Init /\ [][Next]_vars

\* The effect runs once the component has mounted, the browser settles every
\* fetch and every body read, and a timer that was set fires.
LiveSpec ==
    /\ Spec
    /\ WF_vars(StartFetch)
    /\ WF_vars(FetchRejected \/ ResponseNotOk \/ ResponseOk)
    /\ WF_vars(JsonRejected \/ JsonResolved)
    /\ WF_vars(ProgressTimeout)

(***************************************************************************)
(* What the JSX shows.                                                     *)
(***************************************************************************)
\* {loading && (...)}
ShowsLoading == loading

\* {error && (...)}
ShowsError == ErrorSet

\* {!loading && !error && (...)} with data.length > 0
ShowsData == ~loading /\ ~ErrorSet /\ Len(data) > 0

\* the charts: viewMode === 'graphs'
ShowsCharts == ShowsData /\ viewMode = "graphs"

\* the table rows: any other viewMode
ShowsTable == ShowsData /\ viewMode # "graphs"

(***************************************************************************)
(* Properties.  The definitions below restate, independently of the        *)
(* aggregation operators above, what each view is expected to hold.        *)
(***************************************************************************)
RECURSIVE SumValues(_)
SumValues(entries) ==
    IF entries = <<>> THEN 0
    ELSE entries[1].value + SumValues(Tail(entries))

\* the category label of a record: the field if present and non-empty
CategoryLabel(r) ==
    IF "crm_cd_desc" \in DOMAIN r /\ r.crm_cd_desc # <<>>
    THEN r.crm_cd_desc ELSE Unknown

\* the area label of a record when presence alone decides
AreaLabelIfPresent(r) ==
    IF "area_name" \in DOMAIN r THEN r.area_name
    ELSE IF "area" \in DOMAIN r THEN r.area
    ELSE Unknown

\* the area label of a record when a field must be present and non-empty
AreaLabel(r) ==
    IF "area_name" \in DOMAIN r /\ r.area_name # <<>> THEN r.area_name
    ELSE IF "area" \in DOMAIN r /\ r.area # <<>> THEN r.area
    ELSE Unknown

HasParseableDate(r) == "date_rptd" \in DOMAIN r /\ IsValidDate(r.date_rptd)

\* the records of data whose label, under Resolve, is label
CountOf(label, Resolve(_)) ==
    Cardinality({i \in 1..Len(data) : Resolve(data[i]) = label})

LabelsOf(Resolve(_)) == {Resolve(data[i]) : i \in 1..Len(data)}

\* the position in data of the first record carrying label
FirstIndex(label, Resolve(_)) ==
    LET at == {i \in 1..Len(data) : Resolve(data[i]) = label}
    IN  CHOOSE i \in at : \A j \in at : i <= j

FullLabel(e) == e.fullName
NameLabel(e) == e.name

\* string comparison by code units: a sorts strictly before b
StringLess(a, b) ==
    \E k \in 1..(Len(b)) :
        /\ \A i \in 1..(k - 1) : i <= Len(a) /\ a[i] = b[i]
        /\ (k > Len(a) \/ a[k] < b[k])

Loaded == pc = "loaded"

----------------------------------------------------------------------------
\* C1: whatever fields the records lack, the totalCount of chartData is the
\* number of records of data.
C1_TotalCountIsInputLength == chartData.totalCount = Len(data)

C1_Witness ==
    /\ Loaded
    /\ Len(data) > TopN
    /\ \E i \in 1..Len(data) : DOMAIN data[i] = {"dr_no"}
    /\ \E i \in 1..Len(data) :
          "date_rptd" \in DOMAIN data[i] /\ ~IsValidDate(data[i].date_rptd)
    /\ chartData.totalCount = Len(data)

----------------------------------------------------------------------------
\* C2: crimesByType and crimesByArea hold at most 15 entries in
\* non-increasing order of value; every entry's value is the number of
\* records carrying its label, no label appears twice, and a label that is
\* left out counts no more records than any entry that is kept.
TopView(view, LabelIn(_), Resolve(_)) ==
    /\ Len(view) <= TopN
    /\ \A i, j \in 1..Len(view) : i < j => view[i].value >= view[j].value
    /\ \A i \in 1..Len(view) :
          /\ LabelIn(view[i]) \in LabelsOf(Resolve)
          /\ view[i].value = CountOf(LabelIn(view[i]), Resolve)
    /\ \A i, j \in 1..Len(view) :
          i # j => LabelIn(view[i]) # LabelIn(view[j])
    /\ \A label \in LabelsOf(Resolve) :
          (\A i \in 1..Len(view) : LabelIn(view[i]) # label) =>
              /\ Len(view) = TopN
              /\ \A i \in 1..Len(view) :
                    view[i].value >= CountOf(label, Resolve)

C2_TopViewsRankedAndCapped ==
    /\ TopView(chartData.crimesByType, FullLabel, CategoryLabel)
    /\ TopView(chartData.crimesByArea, NameLabel, AreaLabel)

C2_Witness ==
    /\ Loaded
    /\ Cardinality(LabelsOf(CategoryLabel)) > TopN
    /\ Cardinality(LabelsOf(AreaLabel)) > TopN
    /\ Len(chartData.crimesByType) = TopN
    /\ Len(chartData.crimesByArea) = TopN
    /\ chartData.crimesByType[1].value > chartData.crimesByType[TopN].value
    /\ chartData.crimesByType[1].fullName = data[Len(data)].crm_cd_desc
    /\ \E i \in 1..Len(data) :
          \A k \in 1..TopN :
              chartData.crimesByType[k].fullName # CategoryLabel(data[i])

----------------------------------------------------------------------------
\* C3: every record adds exactly one to the category table and one to the
\* area table, under its own label: each table holds, for every label, the
\* number of records carrying it, so the counts of either table sum to
\* totalCount; the values of the returned entries sum to at most totalCount,
\* and to totalCount when no more than 15 distinct labels occur.
TableFollows(table, Resolve(_)) ==
    /\ \A label \in LabelsOf(Resolve) :
          \E i \in 1..Len(table) :
              /\ table[i].name = label
              /\ table[i].value = CountOf(label, Resolve)
    /\ \A i \in 1..Len(table) : table[i].name \in LabelsOf(Resolve)
    /\ Len(table) = Cardinality(LabelsOf(Resolve))

C3_OneIncrementPerRecord ==
    LET counts == Loop(data, timezone)
    IN  /\ TableFollows(counts.typeCount, CategoryLabel)
        /\ TableFollows(counts.areaCount, AreaLabel)
        /\ SumValues(counts.typeCount) = chartData.totalCount
        /\ SumValues(counts.areaCount) = chartData.totalCount
        /\ SumValues(chartData.crimesByType) <= chartData.totalCount
        /\ SumValues(chartData.crimesByArea) <= chartData.totalCount
        /\ Cardinality(LabelsOf(CategoryLabel)) <= TopN =>
              SumValues(chartData.crimesByType) = chartData.totalCount
        /\ Cardinality(LabelsOf(AreaLabel)) <= TopN =>
              SumValues(chartData.crimesByArea) = chartData.totalCount

C3_Witness ==
    /\ Loaded
    /\ Cardinality(LabelsOf(CategoryLabel)) > TopN
    /\ SumValues(chartData.crimesByType) < chartData.totalCount
    /\ \E i \in 1..Len(data) : DOMAIN data[i] = {"dr_no"}
    /\ \E i \in 1..Len(chartData.crimesByType) :
          /\ chartData.crimesByType[i].fullName = Unknown
          /\ chartData.crimesByType[i].value > 1

----------------------------------------------------------------------------
\* C4: a record adds one to the month table exactly when its date field is
\* present and parses; the values of crimesOverTime sum to the number of
\* such records, and a record without a parseable date still counts in
\* totalCount and in both other tables.
C4_TimeCountsParseableDatesOnly ==
    LET counts == Loop(data, timezone)
        dated == {i \in 1..Len(data) : HasParseableDate(data[i])}
        keyed == {<<i, monthKey(data[i].date_rptd, timezone)>> : i \in dated}
        view == chartData.crimesOverTime
    IN  /\ \A i \in 1..Len(view) :
              view[i].value = Cardinality({p \in keyed : p[2] = view[i].name})
        /\ SumValues(view) = Cardinality(dated)
        /\ SumValues(counts.timeCount) = Cardinality(dated)
        /\ chartData.totalCount = Len(data)
        /\ SumValues(counts.typeCount) = Len(data)
        /\ SumValues(counts.areaCount) = Len(data)

C4_Witness ==
    /\ Loaded
    /\ \E i \in 1..Len(data) : "date_rptd" \notin DOMAIN data[i]
    /\ \E i \in 1..Len(data) :
          /\ "date_rptd" \in DOMAIN data[i]
          /\ data[i].date_rptd # <<>>
          /\ ~IsValidDate(data[i].date_rptd)
    /\ \E i \in 1..Len(data) : HasParseableDate(data[i])
    /\ SumValues(chartData.crimesOverTime) < chartData.totalCount
    /\ SumValues(chartData.crimesOverTime) > 0

----------------------------------------------------------------------------
\* C5: crimesOverTime holds one entry for each year-month key observed, in
\* strictly increasing string order of the keys, however many there are.
C5_OverTimeSortedComplete ==
    LET view == chartData.crimesOverTime
        keys == {monthKey(data[i].date_rptd, timezone) :
                    i \in {j \in 1..Len(data) : HasParseableDate(data[j])}}
    IN  /\ \A i \in 1..(Len(view) - 1) :
              StringLess(view[i].name, view[i + 1].name)
        /\ {view[i].name : i \in 1..Len(view)} = keys
        /\ Len(view) = Cardinality(keys)

C5_Witness ==
    /\ Loaded
    /\ Len(chartData.crimesOverTime) > TopN
    /\ HasParseableDate(data[1])
    /\ HasParseableDate(data[Len(data)])
    /\ StringLess(monthKey(data[Len(data)].date_rptd, timezone),
                  monthKey(data[1].date_rptd, timezone))

----------------------------------------------------------------------------
\* C6: in every entry of crimesByType, fullName is the label the records
\* were grouped by; name is its first 37 code units followed by '...' (40
\* code units in all) when fullName is longer than 40, and fullName itself
\* otherwise.
C6_TypeNameShortenedOver40 ==
    \A i \in 1..Len(chartData.crimesByType) :
        LET e == chartData.crimesByType[i]
        IN  /\ e.fullName \in LabelsOf(CategoryLabel)
            /\ e.value = CountOf(e.fullName, CategoryLabel)
            /\ Len(e.fullName) > MaxNameLength =>
                  /\ Len(e.name) = MaxNameLength
                  /\ \A k \in 1..KeptNameLength : e.name[k] = e.fullName[k]
                  /\ \A k \in (KeptNameLength + 1)..MaxNameLength :
                        e.name[k] = 46
            /\ Len(e.fullName) <= MaxNameLength => e.name = e.fullName

C6_Witness ==
    /\ Loaded
    /\ \E i \in 1..Len(chartData.crimesByType) :
          /\ Len(chartData.crimesByType[i].fullName) = 45
          /\ Len(chartData.crimesByType[i].name) = MaxNameLength
    /\ \E i \in 1..Len(chartData.crimesByType) :
          /\ Len(chartData.crimesByType[i].fullName) = MaxNameLength
          /\ chartData.crimesByType[i].name
                = chartData.crimesByType[i].fullName

----------------------------------------------------------------------------
----------------------------------------------------------------------------
\* C8: the fetch is issued once and never again; a failed retrieval leaves
\* data empty, chartData empty and error set; neither the charts nor the
\* table are shown while loading is true or error is set; and on every
\* path loading becomes false for good.
C8_Safe ==
    /\ fetchCount <= 1
    /\ pc = "failed" =>
          /\ ErrorSet
          /\ data = <<>>
          /\ chartData.totalCount = 0
          /\ ~loading
    /\ ErrorSet => pc = "failed"
    /\ pc = "loaded" => ~loading /\ ~ErrorSet /\ chartData.totalCount = Len(data)
    /\ (ShowsCharts \/ ShowsTable) => pc = "loaded"
    /\ Len(data) > 0 => pc = "loaded"

C8_FetchOnceThenSettled ==
    /\ []C8_Safe
    /\ [][fetchCount' # fetchCount => fetchCount = 0 /\ pc = "mounted"]_vars
    /\ <>[](~loading /\ pc \in {"loaded", "failed"})

C8_Witness ==
    /\ pc = "failed"
    /\ fetchCount = 1
    /\ ErrorSet
    /\ ~loading
    /\ data = <<>>
    /\ viewMode = "table"
    /\ ~timerPending

----------------------------------------------------------------------------
\* C9: labels with equal counts are ordered by their first occurrence in
\* data, both inside a view and across the cut after the 15th entry.  (In a
\* view in non-increasing order of value equal values are neighbours, so
\* the order of all ties follows from the order of neighbouring ones.)
TiesByFirstOccurrence(view, LabelIn(_), Resolve(_)) ==
    /\ \A i \in 1..(Len(view) - 1) :
          /\ view[i].value >= view[i + 1].value
          /\ view[i].value = view[i + 1].value =>
                FirstIndex(LabelIn(view[i]), Resolve)
                  < FirstIndex(LabelIn(view[i + 1]), Resolve)
    /\ \A label \in LabelsOf(Resolve) :
          (\A i \in 1..Len(view) : LabelIn(view[i]) # label) =>
              \A i \in 1..Len(view) :
                  view[i].value = CountOf(label, Resolve) =>
                      FirstIndex(LabelIn(view[i]), Resolve)
                        < FirstIndex(label, Resolve)

C9_TiesKeepFirstOccurrenceOrder ==
    /\ TiesByFirstOccurrence(chartData.crimesByType, FullLabel, CategoryLabel)
    /\ TiesByFirstOccurrence(chartData.crimesByArea, NameLabel, AreaLabel)

C9_Witness ==
    /\ Loaded
    /\ Len(chartData.crimesByType) = TopN
    /\ chartData.crimesByType[1].value > chartData.crimesByType[2].value
    /\ chartData.crimesByType[TopN - 1].value
          = chartData.crimesByType[TopN].value
    /\ \E label \in LabelsOf(CategoryLabel) :
          /\ \A i \in 1..TopN : chartData.crimesByType[i].fullName # label
          /\ CountOf(label, CategoryLabel) = chartData.crimesByType[TopN].value

----------------------------------------------------------------------------
\* C10 as stated: a record is counted under area_name if that field is
\* present, else under area if that field is present, else under 'Unknown'.
C10_AreaNameWhenPresent ==
    TableFollows(Loop(data, timezone).areaCount, AreaLabelIfPresent)

\* C10 as amended: a record is counted under area_name if that field is
\* present and not the empty string, else under area if that field is
\* present and not the empty string, else under 'Unknown'.
C10_AreaNameWhenNonEmpty ==
    TableFollows(Loop(data, timezone).areaCount, AreaLabel)

C10_Witness ==
    /\ Loaded
    /\ \E i \in 1..Len(data) :
          /\ "area_name" \in DOMAIN data[i] /\ "area" \in DOMAIN data[i]
          /\ data[i].area_name # <<>>
          /\ data[i].area # data[i].area_name
          /\ data[i].area \notin LabelsOf(AreaLabel)
    /\ \E i \in 1..Len(data) :
          /\ "area_name" \in DOMAIN data[i] /\ "area" \in DOMAIN data[i]
          /\ data[i].area_name = <<>>
          /\ data[i].area \in LabelsOf(AreaLabel)
    /\ \E i \in 1..Len(data) :
          /\ "area_name" \notin DOMAIN data[i]
          /\ "area" \notin DOMAIN data[i]
    /\ Unknown \in LabelsOf(AreaLabel)

====
